---- MODULE Spec2Model ----
(***************************************************************************)
(* Connection lifecycle of the reconnecting HTTP wrapper                   *)
(* (KhanhPham2411/mcp-chrome, app/native-server, the variant with          *)
(* reconnection and health checking: src/unnamed/part_000 lines 45-425).   *)
(*                                                                         *)
(* The wrapper runs on a single-threaded event loop.  Every action below   *)
(* is one run-to-completion step of that loop: a callback from its start   *)
(* to its first pending await, or the resumption of an await up to the     *)
(* next one (a caller that awaits initializeMcpClient resumes in the same  *)
(* step as the return it awaits).  The collaborators (MCP Client,          *)
(* transport, backend) are the environment: the outcome of close(),        *)
(* connect(), callTool() and sendRequest() is chosen nondeterministically, *)
(* and timers fire in any order.  Where a property depends on the backend  *)
(* being reachable or not, the backend is tracked (BackendSpec) and the    *)
(* outcome of connect() follows it.                                        *)
(*                                                                         *)
(* Client objects are told apart only as far as the program can: the one   *)
(* mcpClient refers to, and former ones, which matter as handles a failed  *)
(* close() left open and as the targets of calls still in flight.          *)
(***************************************************************************)
EXTENDS Bags, FiniteSets, Integers, Sequences, TLC

(* ---- program constants ---- *)
MAX_RECONNECT_ATTEMPTS == 5

(* ---- bounds of the model ---- *)
MaxRequests == 1         \* POST /tools/get-cookie requests being forwarded at once
MaxProbes == 1           \* health probes in flight at once
MaxHealthTimers == 2     \* health-check interval timers active at once
MaxReconnectTimers == 2  \* delayed reconnect timers pending at once
MaxLeaked == 1           \* handles left open by a close() that threw
MaxDepth == 2            \* saturation of the recursion depth of sendToMcpServer

NoClient == "null"       \* mcpClient === null
NoTimer == 0             \* an interval timer that is already cleared
HealthTimerIds == 1..MaxHealthTimers

Bodies == {"badjson", "nourl", "url"}
Faults == {"connection", "closed", "timeout"}
CloseOutcomes == {"ok", "throwClosed", "throwOpen"}
Results == {"cookies", "toolError"}   \* what callTool resolves with

VARIABLES
  mcpClient,          \* NoClient, or the state of the Client it refers to:
                      \* "created" (never connected) or "open" (connected)
  isInitializing,
  isConnected,
  reconnectAttempts,
  leaked,             \* former handles still open because close() threw
  dropped,            \* former handles still open because no close() was awaited
  initPc,             \* where the initializeMcpClient attempt is suspended
  startupTimer,       \* the setTimeout of the listen callback is pending
  reconnectTimers,    \* number of pending delayed reconnect callbacks
  healthTimers,       \* the active setInterval timers
  probes,             \* bag of health probes in flight, <<timer, stale>>
  req,                \* bag of the sendToMcpServer calls in progress
  openFailures,       \* failed opens since process start, until the first success
  everConnected,      \* some connect has succeeded since process start
  backend,            \* the MCP server at MCP_SERVER_URL: "up", "down", "restarted"
                      \* (up again after an outage), or "any": not tracked, every
                      \* outcome of a connect or a call possible at any time
  ev                  \* what the last step did (observation only)

vars == <<mcpClient, isInitializing, isConnected, reconnectAttempts, leaked,
          dropped, initPc, startupTimer, reconnectTimers, healthTimers, probes, req,
          openFailures, everConnected, backend, ev>>

Min(a, b) == IF a < b THEN a ELSE b

One(x) == SetToBag({x})

(* A sendToMcpServer call in progress: pc "calling" while its Link call is *)
(* in flight, "init" while it awaits the initializeMcpClient it invoked;   *)
(* stale: the handle the Link call was issued on is no longer mcpClient;   *)
(* depth: how many times it has re-entered itself; onOpen: the handle's    *)
(* connect had completed when the Link call was issued.                    *)
ReqStates ==
  [pc : {"calling", "init"}, stale : BOOLEAN, depth : 0..MaxDepth, onOpen : BOOLEAN]

ProbeKeys == (HealthTimerIds \cup {NoTimer}) \X BOOLEAN

LinkCalls(rq) == rq.depth + 1

InitCalls(rq) == IF rq.pc = "init" THEN rq.depth + 1 ELSE rq.depth

(* The connection state as the program holds it; the arguments are the     *)
(* values a caller has given to the variables it wrote before the call.    *)
Snapshot(conn, att, rts, hts) ==
  [mcpClient |-> mcpClient, isInitializing |-> isInitializing,
   isConnected |-> conn, reconnectAttempts |-> att, leaked |-> leaked,
   dropped |-> dropped,
   initPc |-> initPc, reconnectTimers |-> rts, healthTimers |-> hts]

Cur == Snapshot(isConnected, reconnectAttempts, reconnectTimers, healthTimers)

(* op: what ran; caller: who called initializeMcpClient; path: the branch    *)
(* taken; ret: what initializeMcpClient returned at once, or for a Link     *)
(* call that resolved the result put under "response" in the body; code:    *)
(* the HTTP status answered (0: none); sent: a forwarded Link call was      *)
(* issued; pre: the connection state when the operation was entered; fault: *)
(* the kind of error a Link call rejected with; timer: the interval timer   *)
(* whose callback ran; body: the state fields a GET answer reports.         *)
Observed(op, caller, path, ret, code, sent, pre) ==
  [op |-> op, caller |-> caller, path |-> path, ret |-> ret, code |-> code,
   sent |-> sent, pre |-> pre, fault |-> "none", timer |-> NoTimer,
   body |-> "none"]

(* the record is kept only where it was switched on at the start *)
Ev(op, caller, path, ret, code, sent, pre) ==
  IF ev.op = "off" THEN ev ELSE Observed(op, caller, path, ret, code, sent, pre)

Rejected(e, fault) == IF e.op = "off" THEN e ELSE [e EXCEPT !.fault = fault]

OfTimer(e, t) == IF e.op = "off" THEN e ELSE [e EXCEPT !.timer = t]

Answered(e, body) == IF e.op = "off" THEN e ELSE [e EXCEPT !.body = body]

InitState ==
  /\ mcpClient = NoClient
  /\ isInitializing = FALSE
  /\ isConnected = FALSE
  /\ reconnectAttempts = 0
  /\ leaked = 0
  /\ dropped = 0
  /\ initPc = "idle"
  /\ startupTimer = TRUE
  /\ reconnectTimers = 0
  /\ healthTimers = {}
  /\ probes = EmptyBag
  /\ req = EmptyBag
  /\ openFailures = 0
  /\ everConnected = FALSE

Init ==
  /\ InitState /\ backend = "any"
  /\ ev = Observed("none", "none", "none", "none", 0, FALSE, Cur)

InitUnobserved ==
  /\ InitState /\ backend = "any"
  /\ ev = Observed("off", "none", "none", "none", 0, FALSE, Cur)

(* the process may be started while the backend is running or not *)
InitBackend ==
  /\ InitState /\ backend \in {"up", "down"}
  /\ ev = Observed("off", "none", "none", "none", 0, FALSE, Cur)

(* ---- the backend, as far as it decides the outcome of a request ---- *)

Reachable == backend # "down"

Unreachable == backend \in {"any", "down"}

(* ---- conditions of the code ---- *)

AlreadyInitializing_skipped == FALSE

AlreadyInitializing == isInitializing

AlreadyConnected_clientOnly(conn) == mcpClient # NoClient

AlreadyConnected(conn) == conn /\ mcpClient # NoClient

NotReady_clientOnly(client, conn) == client = NoClient

NotReady(client, conn) == client = NoClient \/ ~conn

CanRetry_inclusive(att) == att <= MAX_RECONNECT_ATTEMPTS

CanRetry(att) == att < MAX_RECONNECT_ATTEMPTS

StaleClient_ignored == FALSE

StaleClient == mcpClient # NoClient

ExitInitializing_successOnly(path) == path = "failure"

(* the finally block: the value isInitializing has when an attempt exits    *)
ExitInitializing(path) == FALSE

IsConnectionError_any(fault) == TRUE

(* error.message.includes('connection') || error.message.includes('closed') *)
IsConnectionError(fault) == fault \in {"connection", "closed"}

InitPath_stopsWhenExhausted(conn) ==
  IF AlreadyInitializing \/ reconnectAttempts >= MAX_RECONNECT_ATTEMPTS THEN "busy"
  ELSE IF AlreadyConnected(conn) THEN "connected"
  ELSE "attempt"

(* the branch a call of initializeMcpClient takes *)
InitPath(conn) ==
  IF AlreadyInitializing THEN "busy"
  ELSE IF AlreadyConnected(conn) THEN "connected"
  ELSE "attempt"

InitRet(conn) ==
  CASE InitPath(conn) = "busy" -> "false"
    [] InitPath(conn) = "connected" -> "true"
    [] OTHER -> "pending"

(* ---- initializeMcpClient, from the call to its first await ---- *)

(* mcpClient = new Client(...); await mcpClient.connect(transport): calls   *)
(* and probes still in flight were issued on a handle that mcpClient no     *)
(* longer refers to                                                         *)
Outdated(b) ==
  BagOfAll(LAMBDA x : IF x.pc = "calling" THEN [x EXCEPT !.stale = TRUE] ELSE x, b)

OutdatedProbes(b) == BagOfAll(LAMBDA p : <<p[1], TRUE>>, b)

NewClientAndConnect_keptOnThrow(closed, threw, rq, pr) ==
  /\ mcpClient' = IF threw THEN mcpClient ELSE "created"
  /\ leaked' = IF threw THEN leaked + 1 ELSE leaked
  /\ dropped' = IF mcpClient = "open" /\ ~closed THEN dropped + 1 ELSE dropped
  /\ initPc' = "connecting"
  /\ req' = Outdated(rq)
  /\ probes' = OutdatedProbes(pr)

(* closed: close() of the handle mcpClient referred to was awaited; threw:   *)
(* it threw and left that handle open                                       *)
NewClientAndConnect(closed, threw, rq, pr) ==
  /\ mcpClient' = "created"
  /\ leaked' = IF threw THEN leaked + 1 ELSE leaked
  /\ dropped' = IF mcpClient = "open" /\ ~closed THEN dropped + 1 ELSE dropped
  /\ initPc' = "connecting"
  /\ req' = Outdated(rq)
  /\ probes' = OutdatedProbes(pr)

(* the bounds leave room for what the attempt may start *)
AttemptFits(rts, hts) ==
  /\ rts < MaxReconnectTimers
  /\ Cardinality(hts) < MaxHealthTimers

(* rq, pr: the calls and probes in flight once the caller has taken its own *)
(* one out                                                                  *)
InitializeMcpClient(conn, att, rts, hts, rq, pr) ==
  /\ isConnected' = conn
  /\ reconnectAttempts' = att
  /\ reconnectTimers' = rts
  /\ healthTimers' = hts
  /\ UNCHANGED <<openFailures, everConnected>>
  /\ IF InitPath(conn) = "attempt"
     THEN /\ AttemptFits(rts, hts)
          /\ isInitializing' = TRUE
          /\ IF StaleClient
             THEN /\ initPc' = "closing"
                  /\ req' = rq /\ probes' = pr
                  /\ UNCHANGED <<mcpClient, leaked, dropped>>
             ELSE NewClientAndConnect(FALSE, FALSE, rq, pr)
     ELSE /\ req' = rq /\ probes' = pr
          /\ UNCHANGED <<mcpClient, isInitializing, leaked, dropped, initPc>>

(* ---- setupConnectionMonitoring and clearInterval ---- *)

FreshTimer(hts) ==
  CHOOSE t \in HealthTimerIds : t \notin hts /\ \A u \in HealthTimerIds : u \notin hts => t <= u

SetupConnectionMonitoring_none(client, hts) == hts

SetupConnectionMonitoring(client, hts) ==
  IF client = NoClient THEN hts ELSE hts \cup {FreshTimer(hts)}

ClearInterval_noop(t, hts) == hts

(* clearInterval(healthCheckInterval) *)
ClearInterval(t, hts) == hts \ {t}

(* clearInterval(t): the timer stops; probes it started stay in flight and  *)
(* their later clearInterval is a no-op                                     *)
Retire(t, b) == BagOfAll(LAMBDA p : IF p[1] = t THEN <<NoTimer, p[2]>> ELSE p, b)

(* ---- sendToMcpServer, from the call to its await ---- *)

(* the bag holding the call once it awaits its Link call; nothing when it   *)
(* throws 'MCP client not initialized or not connected'                     *)
SendToMcpServer(depth, client, conn) ==
  IF NotReady(client, conn)
  THEN EmptyBag
  ELSE One([pc |-> "calling", stale |-> FALSE, depth |-> depth,
            onOpen |-> (client = "open")])

Awaiting == {rq \in BagToSet(req) : rq.pc = "init"}

(* the calls in progress once an attempt has exited: the call awaiting it   *)
(* retries if the state is Connected, else throws                           *)
Resume(client, conn) ==
  LET others == req (-) SetToBag(Awaiting)
      retry(rq) == IF conn /\ client # NoClient
                   THEN SendToMcpServer(Min(rq.depth + 1, MaxDepth), client, conn)
                   ELSE EmptyBag
  IN IF Awaiting = {} THEN req
     ELSE others (+) retry(CHOOSE rq \in Awaiting : TRUE)

(* ---- the timers that call initializeMcpClient ---- *)

StartupTimerFires ==
  /\ startupTimer
  /\ UNCHANGED backend
  /\ startupTimer' = FALSE
  /\ InitializeMcpClient(isConnected, reconnectAttempts, reconnectTimers,
                         healthTimers, req, probes)
  /\ ev' = Ev("init", "startup", InitPath(isConnected), InitRet(isConnected), 0,
              FALSE, Cur)

NextAttempt_same(att) == att

(* reconnectAttempts++ *)
NextAttempt(att) == att + 1

ReconnectTimerFires ==
  /\ reconnectTimers > 0
  /\ UNCHANGED backend
  /\ LET att == NextAttempt(reconnectAttempts)
         rts == reconnectTimers - 1
     IN /\ InitializeMcpClient(isConnected, att, rts, healthTimers, req, probes)
        /\ ev' = Ev("init", "timer", InitPath(isConnected), InitRet(isConnected), 0,
                    FALSE, Snapshot(isConnected, att, rts, healthTimers))
  /\ UNCHANGED startupTimer

(* ---- initializeMcpClient, resumed after await mcpClient.close() ---- *)

CloseCompletes(outcome) ==
  /\ initPc = "closing"
  /\ UNCHANGED backend
  /\ outcome = "throwOpen" => mcpClient = "open" /\ leaked < MaxLeaked
  /\ NewClientAndConnect(TRUE, outcome = "throwOpen", req, probes)
  /\ ev' = Ev("closeDone", "none", outcome, "pending", 0, FALSE, Cur)
  /\ UNCHANGED <<isInitializing, isConnected, reconnectAttempts, startupTimer,
                 reconnectTimers, healthTimers, openFailures, everConnected>>

(* ---- initializeMcpClient, resumed after await mcpClient.connect() ---- *)

ConnectSucceeds ==
  /\ initPc = "connecting" /\ Reachable
  /\ UNCHANGED backend
  /\ mcpClient' = "open"
  /\ isConnected' = TRUE
  /\ reconnectAttempts' = 0
  /\ healthTimers' = SetupConnectionMonitoring(mcpClient, healthTimers)
  /\ isInitializing' = ExitInitializing("success")
  /\ initPc' = "idle"
  /\ req' = Resume("open", TRUE)
  /\ everConnected' = TRUE
  /\ openFailures' = 0
  /\ ev' = Ev("initExit", "none", "success", "true", 0, Awaiting # {}, Cur)
  /\ UNCHANGED <<leaked, dropped, startupTimer, reconnectTimers, probes>>

ConnectFails ==
  /\ initPc = "connecting" /\ Unreachable
  /\ UNCHANGED backend
  /\ isConnected' = FALSE
  /\ reconnectTimers' = IF CanRetry(reconnectAttempts)
                        THEN reconnectTimers + 1 ELSE reconnectTimers
  /\ isInitializing' = ExitInitializing("failure")
  /\ initPc' = "idle"
  /\ req' = Resume(mcpClient, FALSE)
  /\ openFailures' = IF everConnected THEN openFailures ELSE openFailures + 1
  /\ ev' = Ev("initExit", "none", "failure", "false",
              IF Awaiting # {} THEN 500 ELSE 0, FALSE, Cur)
  /\ UNCHANGED <<mcpClient, reconnectAttempts, leaked, dropped, startupTimer,
                 healthTimers, probes, everConnected>>

(* ---- the health-check interval callback ---- *)

HealthTick(t) ==
  /\ t \in healthTimers
  /\ UNCHANGED backend
  /\ IF NotReady(mcpClient, isConnected)
     THEN /\ healthTimers' = ClearInterval(t, healthTimers)
          /\ probes' = Retire(t, probes)
          /\ ev' = OfTimer(Ev("tick", "health", "cleared", "none", 0, FALSE, Cur), t)
     ELSE /\ BagCardinality(probes) < MaxProbes
          /\ probes' = probes (+) One(<<t, FALSE>>)
          /\ ev' = OfTimer(Ev("tick", "health", "probe", "none", 0, FALSE, Cur), t)
          /\ UNCHANGED healthTimers
  /\ UNCHANGED <<mcpClient, isInitializing, isConnected, reconnectAttempts, leaked,
                 dropped, initPc, startupTimer, reconnectTimers, req, openFailures,
                 everConnected>>

ProbeSucceeds(p) ==
  /\ BagIn(p, probes) /\ Reachable
  /\ UNCHANGED backend
  /\ probes' = probes (-) One(p)
  /\ ev' = Ev("probeDone", "health", "ok", "none", 0, FALSE, Cur)
  /\ UNCHANGED <<mcpClient, isInitializing, isConnected, reconnectAttempts, leaked,
                 dropped, initPc, startupTimer, reconnectTimers, healthTimers, req,
                 openFailures, everConnected>>

ProbeFails(p) ==
  /\ BagIn(p, probes)
  /\ UNCHANGED backend
  /\ LET hts == ClearInterval(p[1], healthTimers) IN
     /\ InitializeMcpClient(FALSE, reconnectAttempts, reconnectTimers, hts,
                            req, Retire(p[1], probes (-) One(p)))
     /\ ev' = OfTimer(Ev("init", "health", InitPath(FALSE), InitRet(FALSE), 0, FALSE,
                         Snapshot(FALSE, reconnectAttempts, reconnectTimers, hts)),
                      p[1])
  /\ UNCHANGED startupTimer

(* ---- GET /ping and GET /tools ---- *)

McpClientReady_clientOnly(client, conn) == client # NoClient

(* mcpClient !== null && isConnected *)
McpClientReady(client, conn) == client # NoClient /\ conn

PingBody ==
  [mcpClientReady |-> McpClientReady(mcpClient, isConnected),
   isConnected |-> isConnected, isInitializing |-> isInitializing,
   reconnectAttempts |-> reconnectAttempts,
   maxReconnectAttempts |-> MAX_RECONNECT_ATTEMPTS]

ToolsBody ==
  [status |-> IF McpClientReady(mcpClient, isConnected) THEN "ready" ELSE "initializing",
   isConnected |-> isConnected, isInitializing |-> isInitializing,
   reconnectAttempts |-> reconnectAttempts]

HttpPing ==
  /\ ev' = Answered(Ev("ping", "http", "none", "none", 200, FALSE, Cur), PingBody)
  /\ UNCHANGED <<mcpClient, isInitializing, isConnected, reconnectAttempts, leaked,
                 dropped, initPc, startupTimer, reconnectTimers, healthTimers, probes,
                 req, openFailures, everConnected, backend>>

HttpTools ==
  /\ ev' = Answered(Ev("tools", "http", "none", "none", 200, FALSE, Cur), ToolsBody)
  /\ UNCHANGED <<mcpClient, isInitializing, isConnected, reconnectAttempts, leaked,
                 dropped, initPc, startupTimer, reconnectTimers, healthTimers, probes,
                 req, openFailures, everConnected, backend>>

(* ---- POST /tools/get-cookie and the forwarded call ---- *)

GetCookieStatus_stateFirst(body) ==
  IF NotReady(mcpClient, isConnected) THEN 503
  ELSE IF body \in {"badjson", "nourl"} THEN 400
  ELSE 0

(* the status the handler answers before forwarding; 0: it forwards         *)
GetCookieStatus(body) ==
  IF body \in {"badjson", "nourl"} THEN 400
  ELSE IF NotReady(mcpClient, isConnected) THEN 503
  ELSE 0

HttpGetCookie(body) ==
  /\ UNCHANGED backend
  /\ IF GetCookieStatus(body) # 0
     THEN /\ ev' = Ev("request", "http", body, "none", GetCookieStatus(body), FALSE, Cur)
          /\ UNCHANGED req
     ELSE LET sent == SendToMcpServer(0, mcpClient, isConnected) IN
          /\ BagCardinality(req) < MaxRequests
          /\ req' = req (+) sent
          /\ ev' = Ev("request", "http", body, "none",
                      IF sent = EmptyBag THEN 500 ELSE 0, sent # EmptyBag, Cur)
  /\ UNCHANGED <<mcpClient, isInitializing, isConnected, reconnectAttempts, leaked,
                 dropped, initPc, startupTimer, reconnectTimers, healthTimers, probes,
                 openFailures, everConnected>>

CallSucceeds(rq, result) ==
  /\ BagIn(rq, req) /\ rq.pc = "calling" /\ Reachable
  /\ UNCHANGED backend
  /\ req' = req (-) One(rq)
  /\ ev' = Ev("callDone", "forward", "ok", result, 200, FALSE, Cur)
  /\ UNCHANGED <<mcpClient, isInitializing, isConnected, reconnectAttempts, leaked,
                 dropped, initPc, startupTimer, reconnectTimers, healthTimers, probes,
                 openFailures, everConnected>>

CallFails(rq, fault) ==
  /\ BagIn(rq, req) /\ rq.pc = "calling"
  /\ UNCHANGED backend
  /\ IF IsConnectionError(fault)
     THEN /\ InitializeMcpClient(FALSE, reconnectAttempts, reconnectTimers,
                                 healthTimers,
                                 (req (-) One(rq)) (+)
                                   (IF InitPath(FALSE) = "attempt"
                                    THEN One([pc |-> "init", stale |-> FALSE,
                                              depth |-> rq.depth, onOpen |-> TRUE])
                                    ELSE EmptyBag),
                                 probes)
          /\ ev' = Rejected(Ev("init", "forward", InitPath(FALSE), InitRet(FALSE),
                               IF InitPath(FALSE) = "attempt" THEN 0 ELSE 500, FALSE,
                               Snapshot(FALSE, reconnectAttempts, reconnectTimers,
                                        healthTimers)),
                            fault)
     ELSE /\ req' = req (-) One(rq)
          /\ ev' = Rejected(Ev("callDone", "forward", fault, "none", 500, FALSE, Cur),
                            fault)
          /\ UNCHANGED <<mcpClient, isInitializing, isConnected, reconnectAttempts,
                         leaked, dropped, initPc, reconnectTimers, healthTimers, probes,
                         openFailures, everConnected>>
  /\ UNCHANGED startupTimer

Next ==
  \/ StartupTimerFires
  \/ ReconnectTimerFires
  \/ \E outcome \in CloseOutcomes : CloseCompletes(outcome)
  \/ ConnectSucceeds
  \/ ConnectFails
  \/ \E t \in HealthTimerIds : HealthTick(t)
  \/ \E p \in ProbeKeys : ProbeSucceeds(p)
  \/ \E p \in ProbeKeys : ProbeFails(p)
  \/ HttpPing
  \/ HttpTools
  \/ \E body \in Bodies : HttpGetCookie(body)
  \/ \E rq \in ReqStates, result \in Results : CallSucceeds(rq, result)
  \/ \E rq \in ReqStates, fault \in Faults : CallFails(rq, fault)

Spec == Init /\ [][Next]_vars

(* The awaited close() and connect() promises settle.  The steps are those  *)
(* of Spec, with the observation record switched off.                       *)
FairSpec ==
  /\ InitUnobserved /\ [][Next]_vars
  /\ WF_vars(\E outcome \in CloseOutcomes : CloseCompletes(outcome))
  /\ WF_vars(ConnectSucceeds \/ ConnectFails)

(* ---- the backend stops and is started again ---- *)

BackendStops ==
  /\ backend \in {"up", "restarted"}
  /\ backend' = "down"
  /\ UNCHANGED <<mcpClient, isInitializing, isConnected, reconnectAttempts, leaked,
                 dropped, initPc, startupTimer, reconnectTimers, healthTimers, probes,
                 req, openFailures, everConnected, ev>>

BackendStarts ==
  /\ backend = "down"
  /\ backend' = "restarted"
  /\ UNCHANGED <<mcpClient, isInitializing, isConnected, reconnectAttempts, leaked,
                 dropped, initPc, startupTimer, reconnectTimers, healthTimers, probes,
                 req, openFailures, everConnected, ev>>

NextBackend ==
  \/ Next
  \/ BackendStops
  \/ BackendStarts

(* Timers that are pending fire, and the awaited close() and connect()      *)
(* settle: an open succeeds exactly when the backend is reachable, a probe  *)
(* or a call can succeed only then; nothing is assumed about when a probe   *)
(* or a call settles.  The observation record is switched off.              *)
BackendSpec ==
  /\ InitBackend /\ [][NextBackend]_vars
  /\ WF_vars(StartupTimerFires)
  /\ WF_vars(ReconnectTimerFires)
  /\ WF_vars(\E outcome \in CloseOutcomes : CloseCompletes(outcome))
  /\ WF_vars(ConnectSucceeds \/ ConnectFails)
  /\ \A t \in HealthTimerIds : WF_vars(HealthTick(t))

TypeOK ==
  /\ backend \in {"any", "up", "down", "restarted"}
  /\ mcpClient \in {NoClient, "created", "open"}
  /\ isInitializing \in BOOLEAN /\ isConnected \in BOOLEAN
  /\ reconnectAttempts \in Nat
  /\ leaked \in 0..MaxLeaked /\ dropped \in Nat
  /\ initPc \in {"idle", "closing", "connecting"}
  /\ reconnectTimers \in 0..MaxReconnectTimers
  /\ healthTimers \subseteq HealthTimerIds
  /\ BagCardinality(probes) <= MaxProbes /\ BagToSet(probes) \subseteq ProbeKeys
  /\ BagCardinality(req) <= MaxRequests /\ BagToSet(req) \subseteq ReqStates
  /\ Cardinality(Awaiting) <= 1

(* the handles that are open: the current one and the former ones           *)
OpenHandles == leaked + dropped + (IF mcpClient = "open" THEN 1 ELSE 0)

(* ======================= claims ======================= *)

(* C1: a call of initializeMcpClient made while isInitializing is true      *)
(* returns false and changes nothing: no close, no new Client, no connect,  *)
(* no retry timer, and mcpClient, isConnected, reconnectAttempts and        *)
(* isInitializing keep the values they had when the call was entered.       *)
C1_BusyCallHasNoEffect ==
  (ev.op = "init" /\ ev.pre.isInitializing) => (ev.ret = "false" /\ Cur = ev.pre)

C1_Witness ==
  /\ ev.op = "init" /\ ev.pre.isInitializing /\ ev.caller = "forward"
  /\ initPc = "connecting"

(* C2: one forwarded request makes at most two Link calls and invokes       *)
(* initializeMcpClient at most once.                                        *)
C2_OneReconnectOneRetry ==
  \A rq \in BagToSet(req) : LinkCalls(rq) <= 2 /\ InitCalls(rq) <= 1

(* C3: at most one health-check interval timer is active.                   *)
C3_OneHealthTimer == Cardinality(healthTimers) <= 1

(* C4 as claimed: once MAX_RECONNECT_ATTEMPTS opens in a row have failed    *)
(* since process start, no retry is pending or running and the state is     *)
(* Disconnected.                                                            *)
C4_StopsAfterMaxFailures ==
  (~everConnected /\ openFailures >= MAX_RECONNECT_ATTEMPTS)
    => (reconnectTimers = 0 /\ ~isInitializing /\ ~isConnected)

(* C4 amended: the initial open and MAX_RECONNECT_ATTEMPTS retries are      *)
(* made; once MAX_RECONNECT_ATTEMPTS + 1 opens in a row have failed since   *)
(* process start no retry is pending or running and the state is            *)
(* Disconnected; and any open that fails while reconnectAttempts has        *)
(* reached MAX_RECONNECT_ATTEMPTS schedules no retry.                       *)
C4_StopsAfterInitialPlusMaxFailures ==
  /\ (~everConnected /\ openFailures >= MAX_RECONNECT_ATTEMPTS + 1)
       => /\ reconnectTimers = 0 /\ ~isInitializing /\ ~isConnected
          /\ openFailures = MAX_RECONNECT_ATTEMPTS + 1
  /\ (ev.op = "initExit" /\ ev.path = "failure"
        /\ ev.pre.reconnectAttempts >= MAX_RECONNECT_ATTEMPTS)
       => (reconnectTimers = ev.pre.reconnectTimers /\ ~isConnected)

C4_Witness ==
  /\ ~everConnected /\ openFailures = MAX_RECONNECT_ATTEMPTS + 1
  /\ ev.op = "initExit" /\ ev.path = "failure"

(* C5: 0 <= reconnectAttempts <= MAX_RECONNECT_ATTEMPTS in every state.     *)
C5_CounterInRange == reconnectAttempts \in 0..MAX_RECONNECT_ATTEMPTS

(* C6: when an attempt ends by a successful connect, isConnected is true,   *)
(* reconnectAttempts is 0, isInitializing is false, the handle is open and  *)
(* a health timer that was not active before has been started.              *)
C6_SuccessfulConnect ==
  (ev.op = "initExit" /\ ev.path = "success")
    => /\ isConnected /\ reconnectAttempts = 0 /\ ~isInitializing
       /\ mcpClient = "open"
       /\ healthTimers \ ev.pre.healthTimers # {}

C6_Witness ==
  /\ ev.op = "initExit" /\ ev.path = "success"
  /\ ev.pre.reconnectAttempts > 0 /\ isConnected

(* C7: whenever isConnected is false no health-check timer is active.       *)
C7_TimerOnlyWhileConnected == ~isConnected => healthTimers = {}

(* C8: a get-cookie request with a url that arrives while the wrapper is    *)
(* not Connected is answered 503 at once, issues no Link call, invokes no   *)
(* initialize and changes no connection state; and every forwarded call in  *)
(* flight was issued on a handle whose open had completed.                  *)
C8_NotReadyFailsAtOnce ==
  /\ (ev.op = "request" /\ ev.path = "url"
        /\ (ev.pre.mcpClient = NoClient \/ ~ev.pre.isConnected))
       => (ev.code = 503 /\ ~ev.sent /\ Cur = ev.pre)
  /\ \A rq \in BagToSet(req) : rq.pc = "calling" => rq.onOpen

C8_Witness ==
  /\ ev.op = "request" /\ ev.path = "url" /\ ev.code = 503
  /\ ev.pre.initPc = "connecting" /\ ev.pre.mcpClient # NoClient

(* C9: isInitializing is true exactly while an attempt is between its start *)
(* and its exit, and every attempt that starts exits with isInitializing    *)
(* false again, whichever way the close and the connect end.                *)
C9_GuardHeldAndReleased ==
  /\ [](isInitializing <=> initPc # "idle")
  /\ (isInitializing ~> ~isInitializing)

C9_Witness ==
  /\ ~isInitializing /\ initPc = "idle"
  /\ openFailures > 0 /\ reconnectTimers > 0 /\ mcpClient = "created"

(* C10 as claimed: no state has two open handles.                           *)
C10_OneOpenHandle == OpenHandles <= 1

(* C10 amended: a new Client is created only after close() of the previous  *)
(* one has been awaited, so the only handle that can be open besides        *)
(* mcpClient is one whose close() threw (the error is swallowed).           *)
C10_OneOpenHandleNotClosed ==
  /\ OpenHandles - leaked <= 1
  /\ initPc = "connecting" => OpenHandles = leaked

C10_Witness ==
  /\ leaked > 0 /\ mcpClient = "open" /\ isConnected

(* C11: POST /tools/get-cookie answers 400 for a body that is not JSON or   *)
(* has no url, whatever the connection state, without a Link call and       *)
(* without changing the connection state; 503 for a body with a url while   *)
(* the wrapper is not Connected; otherwise it forwards, and answers 200     *)
(* with the result of the Link call under "response" when the call          *)
(* resolves and 500 when the forwarded call throws.                         *)
C11_GetCookieStatuses ==
  /\ ev.code \in {0, 200, 400, 500, 503}
  /\ (ev.op = "request" /\ ev.path \in {"badjson", "nourl"})
       => (ev.code = 400 /\ ~ev.sent /\ Cur = ev.pre)
  /\ (ev.op = "request" /\ ev.path = "url")
       => IF ev.pre.mcpClient = NoClient \/ ~ev.pre.isConnected
          THEN ev.code = 503 /\ ~ev.sent
          ELSE ev.code = 0 /\ ev.sent
  /\ ev.op = "callDone"
       => \/ ev.path = "ok" /\ ev.code = 200 /\ ev.ret \in Results
          \/ ev.path \in Faults /\ ev.code = 500
  /\ (ev.op = "init" /\ ev.caller = "forward" /\ ev.ret = "false") => ev.code = 500
  /\ (ev.op = "initExit" /\ ev.path = "failure")
       => (Awaiting = {} /\ ev.code \in {0, 500} /\ ~ev.sent)

C11_Witness ==
  /\ ev.op = "request" /\ ev.path = "nourl" /\ ev.code = 400
  /\ ~ev.pre.isConnected /\ ev.pre.initPc = "connecting"

(* C12: a forwarded call that fails with a fault not classified as          *)
(* connection-related (a timeout) is answered 500 and triggers nothing:     *)
(* isConnected, reconnectAttempts, mcpClient, the timers and the attempt    *)
(* state are as before the failure, initializeMcpClient is not invoked and  *)
(* the call is not retried.                                                 *)
C12_OtherFaultOnlySurfaced ==
  ev.fault = "timeout"
    => /\ ev.op = "callDone" /\ ev.code = 500 /\ ~ev.sent
       /\ Cur = ev.pre

C12_Witness ==
  /\ ev.op = "callDone" /\ ev.fault = "timeout" /\ ev.code = 500
  /\ isConnected /\ mcpClient = "open" /\ healthTimers # {}

(* something will still call initializeMcpClient or end an attempt on its   *)
(* own: the startup timer, a delayed reconnect timer, an attempt in flight  *)
ReconnectPending == startupTimer \/ reconnectTimers > 0 \/ initPc # "idle"

C14_TickCancelsBeforeInitialize ==
  /\ ev.op = "tick"
       => /\ ev.timer \in ev.pre.healthTimers
          /\ IF ev.pre.mcpClient = NoClient \/ ~ev.pre.isConnected
             THEN /\ ev.path = "cleared"
                  /\ Cur = [ev.pre EXCEPT !.healthTimers = @ \ {ev.timer}]
             ELSE ev.path = "probe" /\ Cur = ev.pre
  /\ (ev.op = "init" /\ ev.caller = "health")
       => /\ ~ev.pre.isConnected /\ ev.timer \notin ev.pre.healthTimers
          /\ ev.path = "attempt"
               => (isInitializing /\ ~isConnected /\ ev.timer \notin healthTimers)

C14_Witness ==
  /\ ev.op = "init" /\ ev.caller = "health" /\ ev.path = "attempt"
  /\ ev.timer # NoTimer /\ healthTimers # {} /\ initPc = "closing"

(* the automatic retries are used up: Disconnected, no attempt in flight,   *)
(* no timer left that would call initializeMcpClient                        *)
Exhausted ==
  /\ ~isConnected /\ ~isInitializing /\ reconnectTimers = 0 /\ ~startupTimer
  /\ reconnectAttempts >= MAX_RECONNECT_ATTEMPTS

(* C15: once the retries are used up, the handling of HTTP requests starts  *)
(* no initialize attempt: with no health timer and no probe left, no step   *)
(* takes the wrapper out of Disconnected with no attempt in flight.         *)
C15_ExhaustedIsTerminal ==
  [][(Exhausted /\ healthTimers = {} /\ probes = EmptyBag)
       => (~isInitializing' /\ ~isConnected')]_vars

(* C16: a call of initializeMcpClient entered with isInitializing false and *)
(* isConnected false starts a real attempt whatever reconnectAttempts is,   *)
(* also at or above MAX_RECONNECT_ATTEMPTS: isInitializing is set and the   *)
(* attempt goes on to close the old handle or to connect a new one; and an  *)
(* attempt whose connect succeeds leaves the state Connected with           *)
(* reconnectAttempts 0.                                                     *)
C16_InitializeAlwaysAttempts ==
  /\ (ev.op = "init" /\ ~ev.pre.isInitializing /\ ~ev.pre.isConnected)
       => /\ ev.path = "attempt" /\ ev.ret = "pending"
          /\ isInitializing /\ initPc \in {"closing", "connecting"}
  /\ initPc = "closing" => mcpClient # NoClient
  /\ initPc = "connecting" => mcpClient = "created"
  /\ (ev.op = "initExit" /\ ev.path = "success")
       => (isConnected /\ reconnectAttempts = 0 /\ mcpClient = "open")

C16_Witness ==
  /\ ev.op = "initExit" /\ ev.path = "success"
  /\ ev.pre.reconnectAttempts >= MAX_RECONNECT_ATTEMPTS /\ ev.pre.reconnectTimers = 0
  /\ isConnected /\ reconnectAttempts = 0

(* C17: the answer to GET /ping carries isConnected, isInitializing and     *)
(* reconnectAttempts as they are when the request is handled, and           *)
(* mcpClientReady is true exactly when mcpClient is not null and            *)
(* isConnected is true; handling the request changes no state.              *)
C17_PingReportsState ==
  ev.op = "ping"
    => /\ ev.code = 200
       /\ ev.body.isConnected = ev.pre.isConnected
       /\ ev.body.isInitializing = ev.pre.isInitializing
       /\ ev.body.reconnectAttempts = ev.pre.reconnectAttempts
       /\ ev.body.mcpClientReady = (ev.pre.mcpClient # NoClient /\ ev.pre.isConnected)
       /\ Cur = ev.pre /\ ~ev.sent

C17_Witness ==
  /\ ev.op = "ping" /\ ~ev.body.mcpClientReady /\ ev.pre.mcpClient # NoClient
  /\ ev.body.isInitializing /\ ev.body.reconnectAttempts > 0

Quiescent ==
  ~isConnected /\ ~isInitializing /\ reconnectTimers = 0 /\ ~startupTimer

(* C18: if no open ever succeeds, the automatic reconnection comes to an    *)
(* end: at most MAX_RECONNECT_ATTEMPTS + 1 opens are attempted and the      *)
(* wrapper ends Disconnected with no attempt in flight and no timer         *)
(* pending, for good; until then every failed open made with                *)
(* reconnectAttempts < MAX_RECONNECT_ATTEMPTS schedules exactly one delayed *)
(* retry (one made at MAX_RECONNECT_ATTEMPTS none), and the retry, when it  *)
(* fires, adds exactly one to reconnectAttempts and starts an attempt.      *)
C18_RetriesTerminate ==
  /\ []~everConnected => <>[]Quiescent
  /\ [](~everConnected => openFailures <= MAX_RECONNECT_ATTEMPTS + 1)
  /\ [][(~everConnected /\ initPc = "connecting" /\ initPc' = "idle" /\ ~isConnected')
          => /\ reconnectAttempts' = reconnectAttempts
             /\ reconnectTimers' = reconnectTimers
                  + (IF reconnectAttempts < MAX_RECONNECT_ATTEMPTS THEN 1 ELSE 0)
             /\ reconnectTimers' <= 1]_vars
  /\ [][(~everConnected /\ reconnectTimers' < reconnectTimers)
          => /\ reconnectTimers' = reconnectTimers - 1
             /\ reconnectAttempts' = reconnectAttempts + 1
             /\ ~isInitializing /\ isInitializing']_vars

C18_Witness ==
  /\ Quiescent /\ ~everConnected /\ backend = "down"
  /\ openFailures = MAX_RECONNECT_ATTEMPTS + 1
  /\ reconnectAttempts = MAX_RECONNECT_ATTEMPTS

(* C19: whichever way the awaited close() of the stale handle ends, by      *)
(* returning or by throwing, the attempt goes on in the same way: the stale *)
(* handle is replaced by a new Client whose connect is awaited, with        *)
(* isInitializing still true and isConnected, reconnectAttempts and the     *)
(* timers untouched; and the attempt then ends Connected when the connect   *)
(* succeeds, and Disconnected with a retry scheduled exactly when           *)
(* reconnectAttempts < MAX_RECONNECT_ATTEMPTS when it fails.                *)
C19_CloseErrorSwallowed ==
  /\ ev.op = "closeDone"
       => /\ ev.pre.initPc = "closing" /\ ev.pre.mcpClient # NoClient
          /\ isInitializing
          /\ Cur = [ev.pre EXCEPT !.mcpClient = "created", !.initPc = "connecting",
                                  !.leaked = IF ev.path = "throwOpen" THEN @ + 1 ELSE @]
  /\ (ev.op = "initExit" /\ ev.path = "success")
       => (isConnected /\ mcpClient = "open" /\ ~isInitializing)
  /\ (ev.op = "initExit" /\ ev.path = "failure")
       => /\ ~isConnected /\ ~isInitializing
          /\ reconnectTimers = ev.pre.reconnectTimers
               + (IF ev.pre.reconnectAttempts < MAX_RECONNECT_ATTEMPTS THEN 1 ELSE 0)

C19_Witness ==
  /\ ev.op = "closeDone" /\ ev.path = "throwOpen" /\ ev.pre.mcpClient = "open"
  /\ initPc = "connecting" /\ mcpClient = "created" /\ leaked > 0

(* C20: in every state where isConnected is true, reconnectAttempts is 0.   *)
C20_ConnectedCounterZero == isConnected => reconnectAttempts = 0

(* C21: at most one delayed reconnect timer is pending at any time.         *)
C21_OneReconnectTimer == reconnectTimers <= 1

(* every call and probe still in flight was issued on a handle that         *)
(* mcpClient has been replaced since                                        *)
OnlyStaleInFlight ==
  /\ \A rq \in BagToSet(req) : rq.pc = "calling" /\ rq.stale
  /\ \A p \in BagToSet(probes) : p[2]

(* C22: while the wrapper is Connected on a new handle and everything in    *)
(* flight was issued on a replaced handle, no step (so no failure of such a *)
(* probe or call) makes the state Disconnected or starts an attempt that    *)
(* closes and reopens the new handle.                                       *)
C22_StaleFailureIgnored ==
  [][(isConnected /\ mcpClient = "open" /\ ~isInitializing /\ OnlyStaleInFlight
        /\ BagCardinality(req) + BagCardinality(probes) > 0)
       => (isConnected' /\ ~isInitializing' /\ mcpClient' = "open")]_vars

====
